---- MODULE Spec2Model ----
(***************************************************************************)
(* Model of the User CRUD stack: UserService -> UserRepository ->         *)
(* Model<UserDocument> (the mongoose collection behind UserSchema).       *)
(*                                                                         *)
(* Spec     : requests are served one at a time (each handler atomic).     *)
(* ConcSpec : two requests in flight; every repository method is split at  *)
(*            its await, the store call itself being one atomic step.      *)
(***************************************************************************)
EXTENDS Integers, Sequences, FiniteSets, TLC

VARIABLES userModel, console, last, hist, procs

vars == <<userModel, console, last, hist, procs>>

(* ------------------------------ bounds -------------------------------- *)
MaxUsers == 2
MaxLog == 2

(* ------------------------------ values -------------------------------- *)
Null == "<null>"
Absent == "<undefined>"
Names == {"A", "B"}
Emails == {"a@x.com"}
Ids == 1..(MaxUsers + 1)
Procs == {1, 2}

CreateDtos == [name : Names \cup {Null}, email : Emails \cup {Null}]
UpdateDtos == [name : Names \cup {Null, Absent}, email : Emails \cup {Null, Absent}]
NoDto == [name |-> Absent, email |-> Absent]
NoId == 0

Ok(v) == [kind |-> "ok", value |-> v]
NullResult == [kind |-> "null"]
Pending == [kind |-> "pending"]
Err(n, m) == [kind |-> "error", name |-> n, message |-> m]

(* --------------------------- UserSchema ------------------------------- *)
\* required: true on a String path: undefined, null and "" are rejected
Required(v) == v \notin {Absent, Null, ""}

UserSchema(data) == Required(data.name) /\ Required(data.email)

(* ------------------- Model<UserDocument> store calls ------------------ *)
IdsOf(docs) == {docs[i].id : i \in 1..Len(docs)}

Lookup(docs, id) == CHOOSE i \in 1..Len(docs) : docs[i].id = id

Remove(docs, i) == SubSeq(docs, 1, i - 1) \o SubSeq(docs, i + 1, Len(docs))

\* variant: the two fields stored crosswise
SwappedCreate(m, data) ==
  IF ~UserSchema(data)
  THEN [model |-> m, result |-> Err("ValidationError", "User validation failed")]
  ELSE LET doc == [id |-> m.nextId, name |-> data.name, email |-> data.email]
           kept == [id |-> m.nextId, name |-> data.email, email |-> data.name]
       IN [model |-> [docs |-> Append(m.docs, kept), nextId |-> m.nextId + 1],
           result |-> Ok(doc)]

\* userModel.create(data): validate against the schema, assign a fresh _id
Model_create(m, data) ==
  IF ~UserSchema(data)
  THEN [model |-> m, result |-> Err("ValidationError", "User validation failed")]
  ELSE LET doc == [id |-> m.nextId, name |-> data.name, email |-> data.email]
       IN [model |-> [docs |-> Append(m.docs, doc), nextId |-> m.nextId + 1],
           result |-> Ok(doc)]

\* variant: only the first document is returned
TruncatedFind(m) ==
  [model |-> m, result |-> Ok(IF m.docs = <<>> THEN <<>> ELSE <<m.docs[1]>>)]

\* userModel.find().exec()
Model_find(m) == [model |-> m, result |-> Ok(m.docs)]

\* userModel.findById(id).exec()
Model_findById(m, id) ==
  IF id \in IdsOf(m.docs)
  THEN [model |-> m, result |-> Ok(m.docs[Lookup(m.docs, id)])]
  ELSE [model |-> m, result |-> NullResult]

\* $set of the keys the update carries; undefined keys are dropped
ApplySet(doc, data) ==
  [id |-> doc.id,
   name |-> IF data.name = Absent THEN doc.name ELSE data.name,
   email |-> IF data.email = Absent THEN doc.email ELSE data.email]

\* variant: the document is replaced, fields the update lacks become null
Overwrite(doc, data) ==
  [id |-> doc.id,
   name |-> IF data.name = Absent THEN Null ELSE data.name,
   email |-> IF data.email = Absent THEN Null ELSE data.email]

ReplacingUpdate(m, id, data) ==
  IF id \in IdsOf(m.docs)
  THEN LET i == Lookup(m.docs, id)
           doc == Overwrite(m.docs[i], data)
       IN [model |-> [m EXCEPT !.docs[i] = doc], result |-> Ok(doc)]
  ELSE [model |-> m, result |-> NullResult]

\* variant: the document is removed and inserted again under a new _id
ReinsertingUpdate(m, id, data) ==
  IF id \in IdsOf(m.docs)
  THEN LET i == Lookup(m.docs, id)
           doc == [ApplySet(m.docs[i], data) EXCEPT !.id = m.nextId]
       IN [model |-> [docs |-> Append(Remove(m.docs, i), doc), nextId |-> m.nextId + 1],
           result |-> Ok(doc)]
  ELSE [model |-> m, result |-> NullResult]

\* variant: { upsert: true }, a missing document is inserted
UpsertingUpdate(m, id, data) ==
  IF id \in IdsOf(m.docs)
  THEN LET i == Lookup(m.docs, id)
           doc == ApplySet(m.docs[i], data)
       IN [model |-> [m EXCEPT !.docs[i] = doc], result |-> Ok(doc)]
  ELSE LET doc == ApplySet([id |-> id, name |-> Null, email |-> Null], data)
       IN [model |-> [m EXCEPT !.docs = Append(m.docs, doc)], result |-> Ok(doc)]

\* userModel.findByIdAndUpdate(id, data, { new: true }).exec(): no upsert,
\* no runValidators, so the schema's required is not applied to the update
Model_findByIdAndUpdate(m, id, data) ==
  IF id \in IdsOf(m.docs)
  THEN LET i == Lookup(m.docs, id)
           doc == ApplySet(m.docs[i], data)
       IN [model |-> [m EXCEPT !.docs[i] = doc], result |-> Ok(doc)]
  ELSE [model |-> m, result |-> NullResult]

\* variant: the document is returned but not removed
KeepingDelete(m, id) ==
  IF id \in IdsOf(m.docs)
  THEN [model |-> m, result |-> Ok(m.docs[Lookup(m.docs, id)])]
  ELSE [model |-> m, result |-> NullResult]

\* userModel.findByIdAndDelete(id).exec()
Model_findByIdAndDelete(m, id) ==
  IF id \in IdsOf(m.docs)
  THEN LET i == Lookup(m.docs, id)
       IN [model |-> [m EXCEPT !.docs = Remove(m.docs, i)], result |-> Ok(m.docs[i])]
  ELSE [model |-> m, result |-> NullResult]

(* --------------------------- UserRepository --------------------------- *)
UserRepository_create(m, data) == Model_create(m, data)

UserRepository_findAll(m) == Model_find(m)

UserRepository_findOne(m, id) == Model_findById(m, id)

\* variant: no check, the null is returned
SilentUpdated(updated) == updated

\* if (!updated) throw new Error('User not found for update'); return updated;
UserRepository_updated(updated) ==
  IF updated.kind = "null"
  THEN Err("Error", "User not found for update")
  ELSE updated

UserRepository_update(m, id, data) ==
  LET r == Model_findByIdAndUpdate(m, id, data)
  IN [model |-> r.model, result |-> UserRepository_updated(r.result)]

\* variant: no check, the null is returned
SilentDeleted(deleted) == deleted

\* if (!deleted) throw new Error('User not found for delete'); return deleted;
UserRepository_deleted(deleted) ==
  IF deleted.kind = "null"
  THEN Err("Error", "User not found for delete")
  ELSE deleted

UserRepository_delete(m, id) ==
  LET r == Model_findByIdAndDelete(m, id)
  IN [model |-> r.model, result |-> UserRepository_deleted(r.result)]

(* ----------------------------- UserService ---------------------------- *)
UserService_create(m, c, dto) ==
  LET r == UserRepository_create(m, dto)
  IN [model |-> r.model, console |-> c, result |-> r.result]

UserService_findAll(m, c) ==
  LET r == UserRepository_findAll(m)
  IN [model |-> r.model, console |-> Append(c, "user"), result |-> r.result]

UserService_findOne(m, c, id) ==
  LET r == UserRepository_findOne(m, id)
  IN [model |-> r.model, console |-> c, result |-> r.result]

UserService_update(m, c, id, dto) ==
  LET r == UserRepository_update(m, id, dto)
  IN [model |-> r.model, console |-> c, result |-> r.result]

\* variant: the service catches the failure and returns null
SwallowingDelete(m, c, id) ==
  LET r == UserRepository_delete(m, id)
  IN [model |-> r.model, console |-> c,
      result |-> IF r.result.kind = "error" THEN NullResult ELSE r.result]

UserService_delete(m, c, id) ==
  LET r == UserRepository_delete(m, id)
  IN [model |-> r.model, console |-> c, result |-> r.result]

(* ------------------------------- state -------------------------------- *)
IdleProc ==
  [pc |-> "idle", op |-> "none", id |-> NoId, dto |-> NoDto,
   seen |-> NullResult, awaited |-> Pending, out |-> Pending]

NoCall == [op |-> "none", id |-> NoId, dto |-> NoDto,
           pre |-> [docs |-> <<>>, nextId |-> 1], result |-> Pending]

Init ==
  /\ userModel = [docs |-> <<>>, nextId |-> 1]
  /\ console = <<>>
  /\ last = NoCall
  /\ hist = [created |-> 0, deleted |-> 0]
  /\ procs = [p \in Procs |-> IdleProc]

\* bookkeeping of successful creates and deletes, for the counting claims
Count(op, result) ==
  [created |-> hist.created + (IF op = "create" /\ result.kind = "ok" THEN 1 ELSE 0),
   deleted |-> hist.deleted + (IF op = "delete" /\ result.kind = "ok" THEN 1 ELSE 0)]

Served(op, id, dto, r) ==
  /\ userModel' = r.model
  /\ console' = r.console
  /\ last' = [op |-> op, id |-> id, dto |-> dto, pre |-> userModel, result |-> r.result]
  /\ hist' = Count(op, r.result)
  /\ UNCHANGED procs

(* ------------------- one request at a time (Spec) --------------------- *)
Create ==
  \E dto \in CreateDtos :
    /\ userModel.nextId <= MaxUsers
    /\ Served("create", NoId, dto, UserService_create(userModel, console, dto))

FindAll ==
  /\ Len(console) < MaxLog
  /\ Served("findAll", NoId, NoDto, UserService_findAll(userModel, console))

FindOne ==
  \E id \in Ids :
    Served("findOne", id, NoDto, UserService_findOne(userModel, console, id))

Update ==
  \E id \in Ids, dto \in UpdateDtos :
    Served("update", id, dto, UserService_update(userModel, console, id, dto))

Delete ==
  \E id \in Ids :
    Served("delete", id, NoDto, UserService_delete(userModel, console, id))

Next == Create \/ FindAll \/ FindOne \/ Update \/ Delete

Spec == Init /\ [][Next]_vars

(* ------------- two requests in flight (ConcSpec) ---------------------- *)
ConcCreateDtos == {[name |-> "A", email |-> "a@x.com"]}
ConcIds == 1..MaxUsers
ConcUpdateDtos == {[name |-> "B", email |-> Absent]}

Called(p, op, id, dto) ==
  /\ procs[p].pc = "idle"
  /\ procs' = [procs EXCEPT ![p] =
       [pc |-> "awaiting", op |-> op, id |-> id, dto |-> dto,
        seen |-> IF op \in {"update", "delete"}
                 THEN Model_findById(userModel, id).result ELSE NullResult,
        awaited |-> Pending, out |-> Pending]]
  /\ UNCHANGED <<userModel, last, hist>>

\* UserService.create -> UserRepository.create, up to the store call
CallCreate(p) ==
  \E dto \in ConcCreateDtos :
    /\ userModel.nextId <= MaxUsers
    /\ Called(p, "create", NoId, dto)
    /\ UNCHANGED console

\* UserService.findAll: console.log('user'), then UserRepository.findAll
CallFindAll(p) ==
  /\ Len(console) < MaxLog
  /\ Called(p, "findAll", NoId, NoDto)
  /\ console' = Append(console, "user")

CallFindOne(p) ==
  \E id \in ConcIds : Called(p, "findOne", id, NoDto) /\ UNCHANGED console

CallUpdate(p) ==
  \E id \in ConcIds, dto \in ConcUpdateDtos :
    Called(p, "update", id, dto) /\ UNCHANGED console

CallDelete(p) ==
  \E id \in ConcIds : Called(p, "delete", id, NoDto) /\ UNCHANGED console

StoreOp(m, op, id, dto) ==
  CASE op = "create" -> Model_create(m, dto)
    [] op = "findAll" -> Model_find(m)
    [] op = "findOne" -> Model_findById(m, id)
    [] op = "update" -> Model_findByIdAndUpdate(m, id, dto)
    [] op = "delete" -> Model_findByIdAndDelete(m, id)

HasContinuation(op) == op \in {"update", "delete"}

\* the store executes the awaited call, one document operation at a time;
\* create, findAll and findOne return the store's promise as it is
StoreCall(p) ==
  /\ procs[p].pc = "awaiting"
  /\ LET r == StoreOp(userModel, procs[p].op, procs[p].id, procs[p].dto)
     IN /\ userModel' = r.model
        /\ hist' = Count(procs[p].op, r.result)
        /\ procs' = IF HasContinuation(procs[p].op)
                    THEN [procs EXCEPT ![p].pc = "resumed", ![p].awaited = r.result]
                    ELSE [procs EXCEPT ![p].pc = "done", ![p].awaited = r.result,
                                       ![p].out = r.result]
  /\ UNCHANGED <<console, last>>

\* update and delete resume after their await: throw on a null, else return
Return(p) ==
  /\ procs[p].pc = "resumed"
  /\ procs' = [procs EXCEPT
       ![p].pc = "done",
       ![p].out = IF procs[p].op = "update"
                  THEN UserRepository_updated(procs[p].awaited)
                  ELSE UserRepository_deleted(procs[p].awaited)]
  /\ UNCHANGED <<userModel, console, last, hist>>

\* the response is sent; the slot serves the next request
Respond(p) ==
  /\ procs[p].pc = "done"
  /\ procs' = [procs EXCEPT ![p] = IdleProc]
  /\ UNCHANGED <<userModel, console, last, hist>>

ConcNext ==
  \E p \in Procs :
    \/ CallCreate(p)
    \/ CallFindAll(p)
    \/ CallFindOne(p)
    \/ CallUpdate(p)
    \/ CallDelete(p)
    \/ StoreCall(p)
    \/ Return(p)
    \/ Respond(p)

ConcSpec == Init /\ [][ConcNext]_vars

(* ============================== claims ================================ *)
HasId(docs, id) == id \in IdsOf(docs)

NotFoundForUpdate == Err("Error", "User not found for update")
NotFoundForDelete == Err("Error", "User not found for delete")

C4_CreateThenFetch ==
  (last.op = "create" /\ UserSchema(last.dto)) =>
    /\ last.result.kind = "ok"
    /\ last.result.value.id # NoId
    /\ LET f == UserService_findOne(userModel, console, last.result.value.id).result
       IN /\ f.kind = "ok"
          /\ f.value.id = last.result.value.id
          /\ f.value.name = last.dto.name
          /\ f.value.email = last.dto.email

C4_Witness ==
  /\ last.op = "create"
  /\ last.result.kind = "ok"
  /\ last.dto.name = "B"
  /\ Len(userModel.docs) = 2

\* C5: from the empty store, with N successful creates and no delete,
\* findAll returns exactly N records, one per created User; findAll and
\* findOne leave the store as it was, so findAll again returns the same.
C5_ListReturnsAllCreated ==
  /\ hist.deleted = 0 =>
       LET all == UserService_findAll(userModel, console).result
       IN /\ all.kind = "ok"
          /\ Len(all.value) = hist.created
          /\ Cardinality(IdsOf(all.value)) = hist.created
  /\ last.op \in {"findAll", "findOne"} => userModel = last.pre
  /\ (last.op = "findAll" /\ hist.deleted = 0) =>
       /\ Len(last.result.value) = hist.created
       /\ UserService_findAll(userModel, console).result = last.result

C5_Witness ==
  /\ last.op = "findAll"
  /\ hist.created = 2
  /\ hist.deleted = 0
  /\ Len(console) = 2
  /\ Len(last.result.value) = 2

\* C6: update(id, partialFields) on a stored User sets exactly the fields
\* the body carries: the other field, the id and every other User stay as
\* they were, the call returns the updated User and findOne(id) returns it.
C6_PartialUpdate ==
  (last.op = "update" /\ HasId(last.pre.docs, last.id)) =>
    LET i == Lookup(last.pre.docs, last.id)
        before == last.pre.docs[i]
    IN /\ Len(userModel.docs) = Len(last.pre.docs)
       /\ userModel.nextId = last.pre.nextId
       /\ \A j \in 1..Len(last.pre.docs) : j # i => userModel.docs[j] = last.pre.docs[j]
       /\ userModel.docs[i].id = before.id
       /\ userModel.docs[i].name =
            (IF last.dto.name = Absent THEN before.name ELSE last.dto.name)
       /\ userModel.docs[i].email =
            (IF last.dto.email = Absent THEN before.email ELSE last.dto.email)
       /\ last.result = Ok(userModel.docs[i])
       /\ UserService_findOne(userModel, console, last.id).result = Ok(userModel.docs[i])

C6_Witness ==
  /\ last.op = "update"
  /\ HasId(last.pre.docs, last.id)
  /\ Len(last.pre.docs) = 2
  /\ last.dto = [name |-> "B", email |-> Absent]
  /\ last.pre.docs[Lookup(last.pre.docs, last.id)].name = "A"
  /\ last.result.kind = "ok"
  /\ last.result.value.name = "B"
  /\ last.result.value.email = "a@x.com"

\* C7: every stored User has an id, a name and an email that are not null,
\* whatever create, update and delete calls were made.
C7_NoNullFields ==
  \A i \in 1..Len(userModel.docs) :
    /\ userModel.docs[i].id # NoId
    /\ userModel.docs[i].name \notin {Null, Absent}
    /\ userModel.docs[i].email \notin {Null, Absent}

\* C8: no two stored Users share an id, and a successful update leaves the
\* User under the id it had: same ids in the store, same id in the result.
C8_IdsUniqueAndImmutable ==
  /\ \A i, j \in 1..Len(userModel.docs) :
       i # j => userModel.docs[i].id # userModel.docs[j].id
  /\ (last.op = "update" /\ last.result.kind = "ok") =>
       /\ HasId(last.pre.docs, last.id)
       /\ last.result.value.id = last.id
       /\ IdsOf(userModel.docs) = IdsOf(last.pre.docs)
       /\ UserService_findOne(userModel, console, last.id).result.kind = "ok"

C8_Witness ==
  /\ last.op = "update"
  /\ last.result.kind = "ok"
  /\ Len(userModel.docs) = 2
  /\ last.id = 2

\* C9: each UserService operation gives the result or the failure, and
\* leaves the store, that the UserRepository operation of the same name
\* gives on the same store and arguments.
RepositoryCall(c) ==
  CASE c.op = "create" -> UserRepository_create(c.pre, c.dto)
    [] c.op = "findAll" -> UserRepository_findAll(c.pre)
    [] c.op = "findOne" -> UserRepository_findOne(c.pre, c.id)
    [] c.op = "update" -> UserRepository_update(c.pre, c.id, c.dto)
    [] c.op = "delete" -> UserRepository_delete(c.pre, c.id)

C9_ServiceForwards ==
  last.op # "none" =>
    /\ last.result = RepositoryCall(last).result
    /\ userModel = RepositoryCall(last).model

C9_Witness ==
  /\ last.op = "delete"
  /\ last.result = NotFoundForDelete
  /\ Len(userModel.docs) = 1

\* C10: two delete(id) racing on a stored id: exactly one returns the
\* deleted User, the other is rejected with not-found. An update racing
\* with a delete of the same stored id returns the updated User or is
\* rejected with not-found, and no User is stored under id once the delete
\* has taken effect.
Racing(p, q, opp, opq) ==
  /\ p # q
  /\ procs[p].op = opp /\ procs[q].op = opq
  /\ procs[p].id = procs[q].id
  /\ procs[p].seen.kind = "ok" /\ procs[q].seen.kind = "ok"
  /\ procs[p].pc = "done" /\ procs[q].pc = "done"

Deleted(p) ==
  /\ procs[p].out.kind = "ok"
  /\ procs[p].out.value.id = procs[p].id

Updated(p) ==
  /\ procs[p].out.kind = "ok"
  /\ procs[p].out.value.id = procs[p].id
  /\ procs[p].dto.name # Absent => procs[p].out.value.name = procs[p].dto.name
  /\ procs[p].dto.email # Absent => procs[p].out.value.email = procs[p].dto.email

C10_WitnessDeletes ==
  /\ Racing(1, 2, "delete", "delete")
  /\ Deleted(2)
  /\ procs[1].out = NotFoundForDelete

C10_WitnessUpdateLost ==
  /\ Racing(1, 2, "update", "delete")
  /\ procs[1].out = NotFoundForUpdate
  /\ Deleted(2)

====
